---- MODULE Spec2Model ----
(***************************************************************************)
(* A model of the import analyser of st-user-app (src/src/import_analyser.py) *)
(*                                                                         *)
(* Text is modelled as a sequence of tokens.  A token is either one of the *)
(* punctuation characters " " (a run of white space), ".", ",", "(", ")",  *)
(* "*", "#", "=" or a word: a maximal run of characters of [a-zA-Z0-9_].   *)
(* The regular expressions of the source are evaluated on these tokens.    *)
(***************************************************************************)
EXTENDS Integers, Sequences, FiniteSets, TLC

VARIABLES
    \* ---- process_python_file (one call) ----
    file_text,              \* the lines of the file being read
    line_no,                \* number of lines read so far
    in_multiline_import,    \* local of process_python_file
    current_import,         \* local of process_python_file
    import_statements,      \* local of process_python_file, the returned list
    fstate,                 \* "idle" | "reading" | "returned" | "failed"
    \* ---- the analyser object and its database ----
    config,                 \* self.config, the loaded TOML file
    python_version,         \* "<major>.<minor>" of the running interpreter
    snyk_data_cache,        \* self.snyk_data_cache: lookup name -> record
    snyk_not_found_packages,\* self.snyk_not_found_packages
    overrides,              \* rows of table snyk_name_overrides, in the file
    run,                    \* number of the process run (1, 2, ...)
    looked,                 \* packages passed to fetch_snyk_data in this run
    package_snyk_data,      \* local of analyse_imports: package -> record
    ncalls,                 \* number of calls of fetch_snyk_data made so far
    last,                   \* what the latest call of fetch_snyk_data did
    \* ---- main, start and analyse_imports ----
    pc,                     \* "args" | "constructed" | "analyse" | "done"
    args,                   \* the parsed command line
    db_conn,                \* "unset" | "open" | "closed" | "none"
    walked,                 \* the directories os.walk went through
    py_files,               \* collected source files, in walk order
    ipynb_files,            \* collected notebooks, in walk order
    file_idx,               \* number of collected files processed
    imports_by_file,        \* file -> its list of (statement, package)
    package_counts,         \* <<package, count>> in order of insertion
    failed_files,           \* files whose processing raised (and was logged)
    pkg_idx,                \* number of unique packages looked up
    written,                \* <<directory, file name>> of every file written
    summary_csv,            \* data rows of import_summary.csv, in file order
    ignores_csv,            \* data rows of snyk_ignores.csv, in file order
    exit_code,              \* "0" | "1" returned by start, "exception"
                            \* raised by the constructor, or None
    \* DuckDBConnectionLite._connect
    kwargs,                 \* the keyword arguments of the call
    cpc,                    \* "idle" | "called" | "returned" | "raised"
    conn,                   \* the connection returned, or Null
    opened,                 \* the targets duckdb.connect was called with
    error,                  \* the exception that left _connect, or "none"
    \* Auth
    access_token,           \* self.access_token: a token, or 0 for None
    issued,                 \* number of tokens the provider has issued
    auth_call               \* the last call of login, get_user or logout

extractVars == <<file_text, line_no, in_multiline_import, current_import,
                 import_statements, fstate>>

fetchVars == <<config, python_version, snyk_data_cache,
               snyk_not_found_packages, overrides, run, looked,
               package_snyk_data, ncalls, last>>

mainVars == <<pc, args, db_conn, walked, py_files, ipynb_files, file_idx,
              imports_by_file, package_counts, failed_files, pkg_idx, written,
              summary_csv, ignores_csv, exit_code>>

connectVars == <<kwargs, cpc, conn, opened, error>>

authVars == <<access_token, issued, auth_call>>

\* the variables of the components the import analyser does not use
otherVars == <<connectVars, authVars>>

vars == <<extractVars, fetchVars, mainVars, otherVars>>

----------------------------------------------------------------------------
(* Bounds *)

MaxLines == 3
MaxCalls == 3
MaxRuns == 2

----------------------------------------------------------------------------
(* Tokens and lines *)

Punct == {" ", ".", ",", "(", ")", "*", "#", "=", "-"}

IsWord(t) == t \notin Punct

Range(s) == {s[i] : i \in 1..Len(s)}

\* re.match returned None, extract_top_level_package returned None
None == "None"

\* str.strip(): leading and trailing white space removed
RECURSIVE LStrip(_)
LStrip(s) == IF s # <<>> /\ s[1] = " " THEN LStrip(Tail(s)) ELSE s

RECURSIVE RStrip(_)
RStrip(s) ==
    IF s # <<>> /\ s[Len(s)] = " " THEN RStrip(SubSeq(s, 1, Len(s) - 1)) ELSE s

\* a plausible slip: the comment marker is stripped with the white space,
\* line.strip().lstrip("#").strip()
Strip_marker(s) ==
    IF RStrip(LStrip(s)) # <<>> /\ RStrip(LStrip(s))[1] = "#"
    THEN RStrip(LStrip(Tail(RStrip(LStrip(s)))))
    ELSE RStrip(LStrip(s))

Strip(s) == RStrip(LStrip(s))

\* token at position i, or "$" past the end of the text
At(s, i) == IF i \in 1..Len(s) THEN s[i] ELSE "$"

\* first position at or after i that is not in the character class
RECURSIVE SkipClass(_, _, _)
SkipClass(s, i, extra) ==
    IF i <= Len(s) /\ (IsWord(s[i]) \/ s[i] \in extra)
    THEN SkipClass(s, i + 1, extra)
    ELSE i

\* \s* : white space is a single token
SkipSpace(s, i) == IF At(s, i) = " " THEN i + 1 ELSE i

\* (?:\s+as\s+[a-zA-Z0-9_]+)? after a name ending before position i
SkipAs(s, i) ==
    IF At(s, i) = " " /\ At(s, i + 1) = "as" /\ At(s, i + 2) = " "
       /\ i + 3 <= Len(s) /\ IsWord(s[i + 3])
       /\ ~(At(s, i + 4) = "*")
    THEN i + 4
    ELSE i

\* [a-zA-Z0-9_\*]+(?: as ..)?(?:\s*,\s*[a-zA-Z0-9_\*]+(?: as ..)?)*\)
\* from position i: TRUE iff the parenthesised list closes
RECURSIVE MatchParenItems(_, _)
MatchParenItems(s, i) ==
    LET j == SkipClass(s, i, {"*"})
        k == SkipAs(s, j)
        c == SkipSpace(s, k)
    IN  /\ j > i
        /\ \/ At(s, k) = ")"
           \/ At(s, j) = ")"
           \/ /\ At(s, c) = ","
              /\ MatchParenItems(s, SkipSpace(s, c + 1))
           \/ /\ k # j
              /\ At(s, SkipSpace(s, j)) = ","
              /\ MatchParenItems(s, SkipSpace(s, SkipSpace(s, j) + 1))

\* import_patterns[0]: ^import\s+[a-zA-Z0-9_\.]+...   (re.match: a prefix)
MatchImportPattern(line) ==
    /\ At(line, 1) = "import"
    /\ At(line, 2) = " "
    /\ SkipClass(line, 3, {"."}) > 3

\* import_patterns[1]: ^from\s+[a-zA-Z0-9_\.]+\s+import\s+(?:names|\(names\))
MatchFromPattern(line) ==
    LET j == SkipClass(line, 3, {"."})
    IN  /\ At(line, 1) = "from"
        /\ At(line, 2) = " "
        /\ j > 3
        /\ At(line, j) = " "
        /\ At(line, j + 1) = "import"
        /\ At(line, j + 2) = " "
        /\ \/ SkipClass(line, j + 3, {"*"}) > j + 3
           \/ /\ At(line, j + 3) = "("
              /\ MatchParenItems(line, j + 4)

import_patterns(line) == MatchImportPattern(line) \/ MatchFromPattern(line)

\* ^import\s+([a-zA-Z0-9_]+)(?:\.|$) and ^from\s+([a-zA-Z0-9_]+)(?:\.|$)
extract_top_level_package(import_statement) ==
    LET s == Strip(import_statement)
    IN  IF /\ At(s, 1) \in {"import", "from"}
           /\ At(s, 2) = " "
           /\ Len(s) >= 3 /\ IsWord(s[3])
           /\ At(s, 4) \in {".", "$"}
        THEN s[3]
        ELSE None

----------------------------------------------------------------------------
(* The body of the loop over the lines of a file *)

StartState ==
    [in_multiline_import |-> FALSE, current_import |-> <<>>,
     import_statements |-> <<>>]

AppendIfPackage(stmts, stmt) ==
    IF extract_top_level_package(stmt) # None
    THEN Append(stmts, <<stmt, extract_top_level_package(stmt)>>)
    ELSE stmts

\* a plausible slip: the patterns tried before the multi-line branch
StepLine_patterns_first(st, raw) ==
    LET line == Strip(raw)
        cur  == st.current_import \o <<" ">> \o line
    IN  IF line = <<>> \/ line[1] = "#" THEN st
        ELSE IF import_patterns(line) THEN
            IF "(" \in Range(line) /\ ")" \notin Range(line)
            THEN [st EXCEPT !.in_multiline_import = TRUE,
                            !.current_import = line]
            ELSE [st EXCEPT !.import_statements =
                                AppendIfPackage(st.import_statements, line)]
        ELSE IF st.in_multiline_import THEN
            IF ")" \in Range(line)
            THEN [in_multiline_import |-> FALSE,
                  current_import |-> <<>>,
                  import_statements |-> AppendIfPackage(st.import_statements, cur)]
            ELSE [st EXCEPT !.current_import = cur]
        ELSE st

StepLine(st, raw) ==
    LET line == Strip(raw)
        cur  == st.current_import \o <<" ">> \o line
    IN  IF line = <<>> \/ line[1] = "#" THEN st
        ELSE IF st.in_multiline_import THEN
            IF ")" \in Range(line)
            THEN [in_multiline_import |-> FALSE,
                  current_import |-> <<>>,
                  import_statements |-> AppendIfPackage(st.import_statements, cur)]
            ELSE [st EXCEPT !.current_import = cur]
        ELSE IF import_patterns(line) THEN
            IF "(" \in Range(line) /\ ")" \notin Range(line)
            THEN [st EXCEPT !.in_multiline_import = TRUE,
                            !.current_import = line]
            ELSE [st EXCEPT !.import_statements =
                                AppendIfPackage(st.import_statements, line)]
        ELSE st

----------------------------------------------------------------------------
(* Names and their characters *)

Spell(n) ==
    CASE n = "a_b" -> <<"a", "_", "b">>
      [] n = "a-b" -> <<"a", "-", "b">>
      [] n = "ab" -> <<"a", "b">>
      [] n = "src" -> <<"s", "r", "c">>
      [] n = "os" -> <<"o", "s">>
      [] n = "x" -> <<"x">>
      [] n = "collections" -> <<"c", "o", "l", "l", "e", "c", "t", "i", "o", "n", "s">>
      [] n = "src." -> <<"s", "r", "c", ".">>
      [] n = "src.util" -> <<"s", "r", "c", ".", "u", "t", "i", "l">>
      [] n = ".venv" -> <<".", "v", "e", "n", "v">>
      [] n = "env" -> <<"e", "n", "v">>
      [] n = "pkg" -> <<"p", "k", "g">>
      [] n = "build" -> <<"b", "u", "i", "l", "d">>
      [] n = ".venv,build" ->
            <<".", "v", "e", "n", "v", ",", "b", "u", "i", "l", "d">>
      [] n = ".py" -> <<".", "p", "y">>
      [] n = ".ipynb" -> <<".", "i", "p", "y", "n", "b">>
      [] n = "main.py" -> <<"m", "a", "i", "n", ".", "p", "y">>
      [] n = "lib.py" -> <<"l", "i", "b", ".", "p", "y">>
      [] n = "e.py" -> <<"e", ".", "p", "y">>
      [] n = "b.py" -> <<"b", ".", "p", "y">>
      [] n = "notes.txt" -> <<"n", "o", "t", "e", "s", ".", "t", "x", "t">>
      [] n = "nb.ipynb" -> <<"n", "b", ".", "i", "p", "y", "n", "b">>

Names == {"a_b", "a-b", "ab", "os", "x", "collections", "src", "src.",
          "src.util"}

Unspell(cs) == CHOOSE n \in Names : Spell(n) = cs

\* str.replace(old, new) for single characters
Replace(cs, old, new) == [i \in 1..Len(cs) |-> IF cs[i] = old THEN new ELSE cs[i]]

\* str.startswith(prefix)
StartsWith(n, prefix) ==
    /\ Len(Spell(prefix)) <= Len(Spell(n))
    /\ SubSeq(Spell(n), 1, Len(Spell(prefix))) = Spell(prefix)

\* str.endswith(suffix)
EndsWith(n, suffix) ==
    /\ Len(Spell(suffix)) <= Len(Spell(n))
    /\ SubSeq(Spell(n), Len(Spell(n)) - Len(Spell(suffix)) + 1, Len(Spell(n)))
          = Spell(suffix)

\* `a in b` for two strings
IsSubstring(a, b) ==
    \E i \in 1..(Len(Spell(b)) - Len(Spell(a)) + 1) :
        SubSeq(Spell(b), i, i + Len(Spell(a)) - 1) = Spell(a)

swapped_package_name(package_name) ==
    Unspell(IF "_" \in Range(Spell(package_name))
            THEN Replace(Spell(package_name), "_", "-")
            ELSE Replace(Spell(package_name), "-", "_"))

----------------------------------------------------------------------------
(* Configuration and classification *)

NoConfig == [k \in {} |-> ""]

Configs == {NoConfig, [k \in {"local_package_rule"} |-> "os"]}

\* dict.get(key, default)
ConfigGet(cfg, key, default) == IF key \in DOMAIN cfg THEN cfg[key] ELSE default

\* a plausible slip: a package of the ignore list is treated as the local rule
local_package_rule_or_ignored(cfg) ==
    IF "snyk_ignores" \in DOMAIN cfg
    THEN cfg["snyk_ignores"][1]
    ELSE ConfigGet(cfg, "local_package_rule", "src.")

\* a plausible slip: the default rule without its dot
local_package_rule_bare(cfg) == ConfigGet(cfg, "local_package_rule", "src")

local_package_rule(cfg) == ConfigGet(cfg, "local_package_rule", "src.")

\* "0.0" is a version stdlib_list has no list for
PythonVersions == {"3.12", "0.0"}

ListedVersions == {"3.12"}

\* stdlib_list.stdlib_list(version), restricted to the names of the model
StdlibList(version) == {"os", "collections"}

\* a plausible slip: the stdlib test left out
is_stdlib_never(package_name, version) == FALSE

\* a plausible slip: a version without a list is taken to be all stdlib
is_stdlib_assumed(package_name, version) ==
    IF version \in ListedVersions
    THEN package_name \in StdlibList(version)
    ELSE TRUE

\* stdlib_list raises VersionNotFound for a version it has no list for;
\* the handler logs a warning and returns False
is_stdlib(package_name, version) ==
    IF version \in ListedVersions
    THEN package_name \in StdlibList(version)
    ELSE FALSE

----------------------------------------------------------------------------
(* fetch_snyk_data *)

\* the return value None of fetch_snyk_data
Null == [null |-> TRUE]

EmptyDict == [n \in {} |-> Null]

SnykData(name, version, health_score) ==
    [package_name |-> name, version |-> version, health_score |-> health_score]

\* What one HTTP GET of an advisor page can lead to:
\*   "page"    status 200 and a page with the name and version elements
\*   "noelem"  status 200 and a page lacking the name or the version element
\*   "status"  raise_for_status raises httpx.HTTPStatusError
\*   "neterr"  the request raises httpx.RequestError
\*   "exc"     any other exception while the response is handled
Outcomes == {"page", "noelem", "status", "neterr", "exc"}

NotFoundEntry(package_name, url) == [name |-> package_name, snyk_url |-> url]

DictPut(cache, key, data) ==
    [n \in DOMAIN cache \cup {key} |-> IF n = key THEN data ELSE cache[n]]

\* rows of snyk_name_overrides with the given package_name
OverrideRows(ovr, package_name) ==
    {i \in 1..Len(ovr) : ovr[i][1] = package_name}

\* The effect of one call.  row is the row fetchone() returns (0: no row),
\* o1 and o2 are the outcomes of the first and of the fallback request.
\* Fields: result, cache, overrides, not_found (entries appended), lookup,
\* hit, urls (the names requested, in order), resp (their outcomes), slept.
Effect(result, cache, ovr, nf, lookup, hit, urls, resp) ==
    [result |-> result, cache |-> cache, overrides |-> ovr, not_found |-> nf,
     lookup |-> lookup, hit |-> hit, urls |-> urls, resp |-> resp,
     slept |-> urls # <<>>]

\* a plausible slip: the override row is not used
snyk_package_name_ignored(package_name, ovr, row) == package_name

\* result[0] if result else package_name
snyk_package_name(package_name, ovr, row) ==
    IF row = 0 THEN package_name ELSE ovr[row][2]

\* a plausible slip: the record is cached under the swapped name
check_extract_swapped(used_swapped, lookup, swapped) == swapped

\* a plausible slip: the record is cached under the name tried first
check_extract_first(used_swapped, lookup, swapped) == lookup

\* the name whose URL answered: the key the record is cached under
check_extract(used_swapped, lookup, swapped) ==
    IF used_swapped THEN swapped ELSE lookup

\* a plausible slip: the swapped URL is tried after any failed request
tries_swapped_on_any_error(o1) == o1 \in {"status", "neterr"}

\* the inner handler: only httpx.HTTPStatusError of the first GET leads to
\* the GET of the swapped URL
tries_swapped(o1) == o1 = "status"

\* a plausible slip: a row is inserted whenever the names differ
insert_override_differs(used_swapped, lookup, swapped) == lookup # swapped

\* a plausible slip: a row is inserted whenever the fallback succeeded
insert_override_always(used_swapped, lookup, swapped) == used_swapped

\* used_swapped == True and snyk_package_name != swapped_package_name
insert_override(used_swapped, lookup, swapped) ==
    used_swapped /\ lookup # swapped

\* a plausible slip: the swapped name built from the lookup name
fallback_name_of_lookup(package_name, lookup) == swapped_package_name(lookup)

\* swapped_url is built from package_name, whatever the override
fallback_name(package_name, lookup) == swapped_package_name(package_name)

\* a plausible slip: the cache consulted under the package name
cache_hit_by_package(package_name, lookup, cache) ==
    package_name \in DOMAIN cache /\ lookup \in DOMAIN cache

\* if snyk_package_name in snyk_data_cache
cache_hit(package_name, lookup, cache) == lookup \in DOMAIN cache

fetch_snyk_data(package_name, cfg, version, cache, ovr, row, o1, o2) ==
    LET lookup == snyk_package_name(package_name, ovr, row)
        swapped == fallback_name(package_name, lookup)
        nf == <<NotFoundEntry(package_name, lookup)>>
        used_swapped == tries_swapped(o1)
        key == check_extract(used_swapped, lookup, swapped)
        urls == IF used_swapped THEN <<lookup, swapped>>
                ELSE <<lookup>>
        resp == IF used_swapped THEN <<o1, o2>> ELSE <<o1>>
        final == IF used_swapped THEN o2 ELSE o1
        snyk_data == SnykData(key, "1.0", "80")
    IN  IF StartsWith(package_name, local_package_rule(cfg))
        THEN Effect(SnykData(package_name, "N/A", "local"), cache, ovr, <<>>,
                    None, FALSE, <<>>, <<>>)
        ELSE IF is_stdlib(package_name, version)
        THEN Effect(SnykData(package_name, "N/A", "stdlib"), cache, ovr, <<>>,
                    None, FALSE, <<>>, <<>>)
        ELSE IF cache_hit(package_name, lookup, cache)
        THEN Effect(cache[lookup], cache, ovr, <<>>,
                    lookup, TRUE, <<>>, <<>>)
        ELSE IF final = "page"
        THEN Effect(snyk_data, DictPut(cache, key, snyk_data),
                    IF insert_override(used_swapped, lookup, swapped)
                    THEN Append(ovr, <<package_name, swapped>>)
                    ELSE ovr,
                    <<>>, lookup, FALSE, urls, resp)
        ELSE IF final \in {"noelem", "status", "neterr"}
        THEN Effect(Null, cache, ovr, nf, lookup, FALSE, urls, resp)
        ELSE Effect(Null, cache, ovr, <<>>, lookup, FALSE, urls, resp)

----------------------------------------------------------------------------
(* Calls of fetch_snyk_data, over several runs of the program *)

PackageNames == {"a_b", "a-b", "ab", "os", "src.util"}

\* the command line before main has run
NoArgs ==
    [directory_ok |-> TRUE, output |-> None, exclude |-> None,
     view_overrides |-> FALSE, view_ignores |-> FALSE]

\* _connect not called
ConnectIdle ==
    /\ kwargs = EmptyDict
    /\ cpc = "idle"
    /\ conn = Null
    /\ opened = <<>>
    /\ error = "none"

\* no call of login, get_user or logout made
NoAuthCall == [op |-> "none", outcome |-> "none", calls |-> <<>>, before |-> 0]

\* no Auth object
AuthIdle ==
    /\ access_token = 0
    /\ issued = 0
    /\ auth_call = NoAuthCall

OtherIdle == ConnectIdle /\ AuthIdle

MainIdle ==
    /\ pc = "idle"
    /\ args = NoArgs
    /\ db_conn = "unset"
    /\ walked = <<>>
    /\ py_files = <<>>
    /\ ipynb_files = <<>>
    /\ file_idx = 0
    /\ imports_by_file = EmptyDict
    /\ package_counts = <<>>
    /\ failed_files = {}
    /\ pkg_idx = 0
    /\ written = {}
    /\ summary_csv = <<>>
    /\ ignores_csv = <<>>
    /\ exit_code = None

\* no call made yet
NoCall ==
    [pkg |-> None, lookup |-> None, hit |-> FALSE, urls |-> <<>>,
     resp |-> <<>>, result |-> Null, wrote |-> FALSE, slept |-> FALSE]

FetchIdle ==
    /\ config = NoConfig
    /\ python_version = "3.12"
    /\ snyk_data_cache = EmptyDict
    /\ snyk_not_found_packages = <<>>
    /\ overrides = <<>>
    /\ run = 1
    /\ looked = {}
    /\ package_snyk_data = EmptyDict
    /\ ncalls = 0
    /\ last = NoCall

ExtractIdle ==
    /\ file_text = <<>>
    /\ line_no = 0
    /\ in_multiline_import = FALSE
    /\ current_import = <<>>
    /\ import_statements = <<>>
    /\ fstate = "idle"

InitFetch ==
    /\ config \in Configs
    /\ python_version \in PythonVersions
    /\ snyk_data_cache = EmptyDict
    /\ snyk_not_found_packages = <<>>
    /\ overrides = <<>>
    /\ run = 1
    /\ looked = {}
    /\ package_snyk_data = EmptyDict
    /\ ncalls = 0
    /\ last = NoCall
    /\ ExtractIdle
    /\ MainIdle
    /\ OtherIdle

CallRecord(package_name, eff, ovr) ==
    [pkg |-> package_name, lookup |-> eff.lookup, hit |-> eff.hit,
     urls |-> eff.urls, resp |-> eff.resp, result |-> eff.result,
     wrote |-> eff.overrides # ovr, slept |-> eff.slept]

\* the SELECT of the override and fetchone(): some matching row, or none
FetchOne(ovr, package_name) ==
    IF OverrideRows(ovr, package_name) = {} THEN {0}
    ELSE OverrideRows(ovr, package_name)

\* snyk_data = await self.fetch_snyk_data(package, python_version,
\*     self.snyk_data_cache); if snyk_data: package_snyk_data[package] = ...
LookupEffect(package_name, row, o1, o2) ==
    /\ LET eff == fetch_snyk_data(package_name, config, python_version,
                                  snyk_data_cache, overrides, row, o1, o2)
       IN  /\ snyk_data_cache' = eff.cache
           /\ overrides' = eff.overrides
           /\ snyk_not_found_packages' = snyk_not_found_packages \o eff.not_found
           /\ package_snyk_data' =
                 IF eff.result # Null
                 THEN DictPut(package_snyk_data, package_name, eff.result)
                 ELSE package_snyk_data
           /\ last' = CallRecord(package_name, eff, overrides)
    /\ looked' = looked \cup {package_name}
    /\ ncalls' = ncalls + 1
    /\ UNCHANGED <<config, python_version, run>>

\* a call of fetch_snyk_data for any package name
Lookup(package_name, row, o1, o2) ==
    /\ ncalls < MaxCalls
    /\ LookupEffect(package_name, row, o1, o2)
    /\ UNCHANGED <<extractVars, mainVars, otherVars>>

\* the process ends and the program is started again: a new analyser, with an
\* empty cache and not-found list, on the same database file
NewRun ==
    /\ run < MaxRuns
    /\ run' = run + 1
    /\ snyk_data_cache' = EmptyDict
    /\ snyk_not_found_packages' = <<>>
    /\ looked' = {}
    /\ package_snyk_data' = EmptyDict
    /\ last' = NoCall
    /\ UNCHANGED <<config, python_version, overrides, ncalls, extractVars,
                   mainVars, otherVars>>

\* the outcomes of the second GET worth telling apart: it is only sent
\* after raise_for_status raised on the first
SecondOutcomes(o1) == IF tries_swapped(o1) THEN Outcomes ELSE {o1}

NextFetch ==
    \/ \E p \in PackageNames, o1 \in Outcomes :
          \E o2 \in SecondOutcomes(o1), row \in FetchOne(overrides, p) :
              Lookup(p, row, o1, o2)
    \/ NewRun

SpecFetch == InitFetch /\ [][NextFetch]_vars

----------------------------------------------------------------------------
(* Lines the files are made of *)

LineImportOs == <<"import", " ", "os">>
LineFromCollections ==
    <<"from", " ", "collections", " ", "import", " ", "defaultdict">>
LineFromXOpen == <<"from", " ", "x", " ", "import", " ", "(">>
LineFromXOpenA == <<"from", " ", "x", " ", "import", " ", "(", "a", ",">>
LineB == <<" ", "b", ",">>
LineCClose == <<" ", "c", ")">>
LineABC == <<" ", "a", ",", " ", "b", ",", " ", "c">>
LineClose == <<")">>
LineComment == <<"#", " ", "note">>
LineBlank == <<>>
LineSpaces == <<" ">>
LineCommentedImport == <<" ", "#", " ", "import", " ", "os">>
LineImportSrc == <<"import", " ", "src", ".", "util">>
LineImportHyphen == <<"import", " ", "a", "-", "b">>
LineFromDotted == <<"from", " ", "x", ".", "y", " ", "import", " ", "z">>
LineImportDotted == <<"import", " ", "a_b", ".", "c">>
LineFromDottedOpen ==
    <<"from", " ", "x", ".", "y", " ", "import", " ", "a", " ", "#", " ", "(">>
LineAssign == <<"x", " ", "=", " ", "1">>
LineFromXParen ==
    <<"from", " ", "x", " ", "import", " ", "(", "a", ",", " ", "b", ")">>

Lines ==
    {LineImportOs, LineFromCollections, LineFromXOpen, LineFromXOpenA, LineB,
     LineCClose, LineABC, LineClose, LineComment, LineBlank, LineSpaces,
     LineFromDotted, LineImportDotted, LineFromDottedOpen, LineAssign,
     LineFromXParen, LineCommentedImport, LineImportSrc, LineImportHyphen}

RECURSIVE SeqsUpTo(_, _)
SeqsUpTo(S, n) ==
    IF n = 0 THEN {<<>>}
    ELSE LET shorter == SeqsUpTo(S, n - 1)
         IN  shorter \cup {Append(s, x) : s \in shorter, x \in S}

Texts == SeqsUpTo(Lines, MaxLines)

----------------------------------------------------------------------------
(* process_python_file, line by line *)

InitExtract ==
    /\ file_text \in Texts
    /\ line_no = 0
    /\ in_multiline_import = FALSE
    /\ current_import = <<>>
    /\ import_statements = <<>>
    /\ fstate = "reading"
    /\ FetchIdle
    /\ MainIdle
    /\ OtherIdle

\* one iteration of `for line in file`
ReadLine ==
    /\ fstate = "reading"
    /\ line_no < Len(file_text)
    /\ LET st == StepLine([in_multiline_import |-> in_multiline_import,
                           current_import |-> current_import,
                           import_statements |-> import_statements],
                          file_text[line_no + 1])
       IN  /\ in_multiline_import' = st.in_multiline_import
           /\ current_import' = st.current_import
           /\ import_statements' = st.import_statements
    /\ line_no' = line_no + 1
    /\ UNCHANGED <<file_text, fstate, fetchVars, mainVars, otherVars>>

\* the file is exhausted: `return import_statements`
ReturnStatements ==
    /\ fstate = "reading"
    /\ line_no = Len(file_text)
    /\ fstate' = "returned"
    /\ UNCHANGED <<file_text, line_no, in_multiline_import, current_import,
                   import_statements, fetchVars, mainVars, otherVars>>

\* open() or the decoding of the next line raises: logged, then
\* `return import_statements` with what was collected so far
ReadError ==
    /\ fstate = "reading"
    /\ fstate' = "failed"
    /\ UNCHANGED <<file_text, line_no, in_multiline_import, current_import,
                   import_statements, fetchVars, mainVars, otherVars>>

NextExtract == ReadLine \/ ReturnStatements \/ ReadError

SpecExtract == InitExtract /\ [][NextExtract]_vars

----------------------------------------------------------------------------
(* The directory tree, its files and their contents *)

\* Path.cwd()
Cwd == "cwd"

\* the directories under the root in the order os.walk lists them, top-down
Tree ==
    << [path |-> <<>>, dirs |-> <<".venv", "env", "pkg">>,
        files |-> <<"main.py", "nb.ipynb">>],
       [path |-> <<".venv">>, dirs |-> <<>>, files |-> <<"lib.py">>],
       [path |-> <<"env">>, dirs |-> <<>>, files |-> <<"e.py">>],
       [path |-> <<"pkg">>, dirs |-> <<"build">>, files |-> <<"notes.txt">>],
       [path |-> <<"pkg", "build">>, dirs |-> <<>>, files |-> <<"b.py">>] >>

\* the lines of a source file
Content(name) ==
    CASE name = "main.py" -> <<LineImportOs, LineBlank, LineImportDotted>>
      [] name = "lib.py" -> <<LineFromDotted>>
      [] name = "e.py" -> <<LineComment, LineImportOs>>
      [] name = "b.py" -> <<LineComment>>

\* the cells of a notebook; source holds the lines of code.split("\n")
NbCells(name) ==
    CASE name = "nb.ipynb" ->
        << [cell_type |-> "code", source |-> <<LineFromDotted>>],
           [cell_type |-> "markdown", source |-> <<LineImportOs>>],
           [cell_type |-> "code", source |-> <<LineImportDotted>>] >>

----------------------------------------------------------------------------
(* collect_python_files *)

\* exclude_dirs = exclude_dirs or [".venv"]; main passes args.exclude, a str
exclude_dirs(arg) ==
    IF arg = None THEN [kind |-> "list", items |-> <<".venv">>]
    ELSE [kind |-> "str", text |-> arg]

\* `d in exclude_dirs`: membership in a list, containment in a str
InExclude(d, ex) ==
    IF ex.kind = "list" THEN d \in Range(ex.items) ELSE IsSubstring(d, ex.text)

\* os.walk with dirs[:] pruned: a directory is walked iff no directory on
\* the way from the root to it is excluded
RECURSIVE Kept(_, _)
Kept(path, ex) ==
    \/ path = <<>>
    \/ /\ ~InExclude(path[Len(path)], ex)
       /\ Kept(SubSeq(path, 1, Len(path) - 1), ex)

WalkedDirs(ex) == SelectSeq(Tree, LAMBDA d : Kept(d.path, ex))

FilesIn(d, suffix) ==
    LET names == SelectSeq(d.files, LAMBDA f : EndsWith(f, suffix))
    IN  [i \in 1..Len(names) |-> [dir |-> d.path, name |-> names[i]]]

RECURSIVE FilesOf(_, _)
FilesOf(dirs, suffix) ==
    IF dirs = <<>> THEN <<>>
    ELSE FilesIn(Head(dirs), suffix) \o FilesOf(Tail(dirs), suffix)

----------------------------------------------------------------------------
(* process_python_file and process_jupyter_notebook as whole calls *)

RECURSIVE FoldLines(_, _)
FoldLines(st, lines) ==
    IF lines = <<>> THEN st
    ELSE FoldLines(StepLine(st, Head(lines)), Tail(lines))

\* err = -1: the file is read to its end; err = k >= 0: an exception is
\* raised when k lines have been processed, and what was appended so far
\* is returned
process_python_file(text, err) ==
    FoldLines(StartState,
              IF err < 0 THEN text ELSE SubSeq(text, 1, err)).import_statements

\* a plausible slip: the two variables initialised once, before the cells
cell_start_kept(st) == st

\* in_multiline_import = False; current_import = "" at the top of a cell
cell_start(st) == [StartState EXCEPT !.import_statements = st.import_statements]

RECURSIVE FoldCellStates(_, _)
FoldCellStates(st, cells) ==
    IF cells = <<>> THEN st
    ELSE IF Head(cells).cell_type # "code"
    THEN FoldCellStates(st, Tail(cells))
    ELSE FoldCellStates(FoldLines(cell_start(st), Head(cells).source),
                        Tail(cells))

FoldCells(stmts, cells) ==
    FoldCellStates([StartState EXCEPT !.import_statements = stmts],
                   cells).import_statements

\* err = -1: no exception; err = k >= 0: json.load (k = 0) or the handling
\* of cell k + 1 raises
process_jupyter_notebook(cells, err) ==
    FoldCells(<<>>, IF err < 0 THEN cells ELSE SubSeq(cells, 1, err))

ErrorPoints(n) == {-1} \cup {k \in 0..n : k = 0 \/ k < n}

----------------------------------------------------------------------------
(* analyse_imports: the loop over the files *)

\* a plausible slip: package_counts[package] = 1
Increment_set(counts, package) ==
    IF \E i \in 1..Len(counts) : counts[i][1] = package
    THEN counts
    ELSE Append(counts, <<package, 1>>)

\* package_counts[package] += 1 on a defaultdict(int)
Increment(counts, package) ==
    IF \E i \in 1..Len(counts) : counts[i][1] = package
    THEN [i \in 1..Len(counts) |->
            IF counts[i][1] = package THEN <<package, counts[i][2] + 1>>
            ELSE counts[i]]
    ELSE Append(counts, <<package, 1>>)

RECURSIVE AddCounts(_, _)
AddCounts(counts, stmts) ==
    IF stmts = <<>> THEN counts
    ELSE AddCounts(Increment(counts, Head(stmts)[2]), Tail(stmts))

AllFiles == py_files \o ipynb_files

\* a plausible slip: the lookups placed before the loop over the notebooks
FilesDone_py_only == file_idx >= Len(py_files)

FilesDone == file_idx = Len(AllFiles)

----------------------------------------------------------------------------
(* main and start *)

ArgsSet ==
    [directory_ok : BOOLEAN, output : {None, "out"},
     exclude : {None, ".venv,build", "pkg"},
     view_overrides : BOOLEAN, view_ignores : BOOLEAN]

\* what earlier runs can have left in the table
\* the configurations of a run: no file, or a file whose only table is
\* snyk_ignores with packages = ["os"]
RunConfigs == {NoConfig, [k \in {"snyk_ignores"} |-> <<"os">>]}

InitialTables == {<<>>, << <<"a_b", "a-b">> >>}

Init ==
    /\ pc = "args"
    /\ args \in ArgsSet
    /\ db_conn = "unset"
    /\ walked = <<>>
    /\ py_files = <<>>
    /\ ipynb_files = <<>>
    /\ file_idx = 0
    /\ imports_by_file = EmptyDict
    /\ package_counts = <<>>
    /\ failed_files = {}
    /\ pkg_idx = 0
    /\ written = {}
    /\ summary_csv = <<>>
    /\ ignores_csv = <<>>
    /\ exit_code = None
    /\ config \in RunConfigs
    /\ python_version \in PythonVersions
    /\ snyk_data_cache = EmptyDict
    /\ snyk_not_found_packages = <<>>
    /\ overrides \in InitialTables
    /\ run = 1
    /\ looked = {}
    /\ package_snyk_data = EmptyDict
    /\ ncalls = 0
    /\ last = NoCall
    /\ ExtractIdle
    /\ OtherIdle

\* self.db_conn after _connect_to_db: the connection, never assigned when
\* IOException is re-raised, or None when another exception is only logged
connection(connect) ==
    CASE connect = "ok" -> "open"
      [] connect = "ioerror" -> "unset"
      [] OTHER -> "none"

\* a plausible slip: a constructor that does not touch the connection
init_completes_on_none(connect) == connect # "ioerror"

\* __init__ returns: the connection was opened, so that the CREATE TABLE on
\* self.db_conn does not raise
init_completes(connect) == connect = "ok"

\* analyser = ImportAnalyser(args.config, args.output); connect is what
\* duckdb.connect does: "ok", "ioerror" (duckdb.IOException, re-raised) or
\* "other" (logged, _connect_to_db returns None and the CREATE TABLE on
\* None raises)
Construct(connect) ==
    /\ pc = "args"
    /\ db_conn' = connection(connect)
    /\ IF init_completes(connect)
       THEN /\ pc' = "constructed"
            /\ UNCHANGED exit_code
       ELSE /\ pc' = "done"
            /\ exit_code' = "exception"
    /\ UNCHANGED <<args, walked, py_files, ipynb_files, file_idx,
                   imports_by_file, package_counts, failed_files, pkg_idx,
                   written, summary_csv, ignores_csv, extractVars, fetchVars, otherVars>>

\* a plausible slip: the two flags tested in the other order
mode_ignores_first(a) ==
    IF a.view_ignores THEN "view_ignores"
    ELSE IF a.view_overrides THEN "view_overrides"
    ELSE "start"

\* main: if args.view_overrides ... elif args.view_ignores ... else start
mode(a) ==
    IF a.view_overrides THEN "view_overrides"
    ELSE IF a.view_ignores THEN "view_ignores"
    ELSE "start"

\* analyser.view_snyk_overrides(): the export of the table; an exception of
\* the export is logged; then main returns
ViewOverrides(exported) ==
    /\ pc = "constructed"
    /\ mode(args) = "view_overrides"
    /\ written' = IF exported THEN written \cup {<<Cwd, "snyk_overrides.csv">>}
                  ELSE written
    /\ UNCHANGED <<summary_csv, ignores_csv>>
    /\ pc' = "done"
    /\ UNCHANGED <<args, db_conn, walked, py_files, ipynb_files, file_idx,
                   imports_by_file, package_counts, failed_files, pkg_idx,
                   exit_code, extractVars, fetchVars, otherVars>>

\* self.config.get("snyk_ignores", {}).get("packages", [])
snyk_ignores(cfg) == ConfigGet(cfg, "snyk_ignores", <<>>)

\* analyser.view_snyk_ignores(); then main returns
ViewIgnores(exported) ==
    /\ pc = "constructed"
    /\ mode(args) = "view_ignores"
    /\ written' = IF exported THEN written \cup {<<Cwd, "snyk_ignores.csv">>}
                  ELSE written
    /\ ignores_csv' = IF exported THEN snyk_ignores(config) ELSE ignores_csv
    /\ UNCHANGED summary_csv
    /\ pc' = "done"
    /\ UNCHANGED <<args, db_conn, walked, py_files, ipynb_files, file_idx,
                   imports_by_file, package_counts, failed_files, pkg_idx,
                   exit_code, extractVars, fetchVars, otherVars>>

\* start: the exception handler and the finally clause, then main returns
StartFails ==
    /\ exit_code' = "1"
    /\ db_conn' = "closed"
    /\ pc' = "done"

\* a plausible slip: the root is walked without the test
root_is_valid_unchecked(a) == TRUE

\* root_path.exists() and root_path.is_dir()
root_is_valid(a) == a.directory_ok

\* start: collect_python_files(directory, exclude_dirs)
Collect ==
    /\ pc = "constructed"
    /\ mode(args) = "start"
    /\ IF ~root_is_valid(args)
       THEN /\ StartFails
            /\ UNCHANGED <<walked, py_files, ipynb_files>>
       ELSE LET dirs == WalkedDirs(exclude_dirs(args.exclude))
            IN  /\ walked' = [i \in 1..Len(dirs) |-> dirs[i].path]
                /\ py_files' = FilesOf(dirs, ".py")
                /\ ipynb_files' = FilesOf(dirs, ".ipynb")
                /\ pc' = "analyse"
                /\ UNCHANGED <<db_conn, exit_code>>
    /\ UNCHANGED <<args, file_idx, imports_by_file, package_counts,
                   failed_files, pkg_idx, written, summary_csv, ignores_csv,
                   extractVars,
                   fetchVars, otherVars>>

\* analyse_imports: one iteration of the loops over py_files and ipynb_files
ProcessFile(err) ==
    /\ pc = "analyse"
    /\ ~FilesDone
    /\ LET f == AllFiles[file_idx + 1]
           is_py == file_idx < Len(py_files)
           stmts == IF is_py THEN process_python_file(Content(f.name), err)
                    ELSE process_jupyter_notebook(NbCells(f.name), err)
       IN  /\ err \in ErrorPoints(IF is_py THEN Len(Content(f.name))
                                  ELSE Len(NbCells(f.name)))
           /\ imports_by_file' = IF stmts # <<>>
                                 THEN DictPut(imports_by_file, f, stmts)
                                 ELSE imports_by_file
           /\ package_counts' = AddCounts(package_counts, stmts)
           /\ failed_files' = IF err >= 0 THEN failed_files \cup {f}
                              ELSE failed_files
    /\ file_idx' = file_idx + 1
    /\ UNCHANGED <<pc, args, db_conn, walked, py_files, ipynb_files, pkg_idx,
                   written, summary_csv, ignores_csv, exit_code, extractVars,
                   fetchVars, otherVars>>

\* analyse_imports: one iteration of the loop over unique_packages
AnalyseLookup(o1, o2) ==
    /\ pc = "analyse"
    /\ FilesDone
    /\ pkg_idx < Len(package_counts)
    /\ \E row \in FetchOne(overrides, package_counts[pkg_idx + 1][1]) :
          LookupEffect(package_counts[pkg_idx + 1][1], row, o1, o2)
    /\ pkg_idx' = pkg_idx + 1
    /\ UNCHANGED <<pc, args, db_conn, walked, py_files, ipynb_files, file_idx,
                   imports_by_file, package_counts, failed_files, written,
                   summary_csv, ignores_csv, exit_code, extractVars, otherVars>>

\* the SELECT on snyk_name_overrides raises: it is outside the try block of
\* fetch_snyk_data, so the exception ends analyse_imports and reaches start
LookupRaises ==
    /\ pc = "analyse"
    /\ FilesDone
    /\ pkg_idx < Len(package_counts)
    /\ ~StartsWith(package_counts[pkg_idx + 1][1], local_package_rule(config))
    /\ ~is_stdlib(package_counts[pkg_idx + 1][1], python_version)
    /\ StartFails
    /\ UNCHANGED <<args, walked, py_files, ipynb_files, file_idx,
                   imports_by_file, package_counts, failed_files, pkg_idx,
                   written, summary_csv, ignores_csv, extractVars, fetchVars, otherVars>>

\* output_dir = Path(output_dir) if output_dir else Path.cwd()
report_dir(output_dir) == IF output_dir # None THEN output_dir ELSE Cwd

ReportFiles == {"import_log.txt", "import_summary.csv",
                "snyk_not_found_packages.csv"}

\* a plausible slip: sorted(...) ascending, then reversed
InsertByCount_reversed(sorted, item) ==
    LET before == {i \in 1..Len(sorted) : sorted[i][2] > item[2]}
        n == Cardinality(before)
    IN  SubSeq(sorted, 1, n) \o <<item>> \o SubSeq(sorted, n + 1, Len(sorted))

\* one step of the stable sort by count, largest first: an item goes behind
\* every item already placed whose count is not smaller
InsertByCount(sorted, item) ==
    LET before == {i \in 1..Len(sorted) : sorted[i][2] >= item[2]}
        n == Cardinality(before)
    IN  SubSeq(sorted, 1, n) \o <<item>> \o SubSeq(sorted, n + 1, Len(sorted))

RECURSIVE SortByCount(_, _)
SortByCount(items, sorted) ==
    IF items = <<>> THEN sorted
    ELSE SortByCount(Tail(items), InsertByCount(sorted, Head(items)))

\* results["package_counts"]:
\* dict(sorted(package_counts.items(), key=lambda x: x[1], reverse=True))
sorted_package_counts(counts) == SortByCount(counts, <<>>)

\* a data row of import_summary.csv: package, count, snyk_package_name,
\* snyk_version, snyk_health_score
summary_row(package, count, snyk) ==
    IF package \in DOMAIN snyk /\ snyk[package] # Null
    THEN <<package, count, snyk[package].package_name,
           snyk[package].version, snyk[package].health_score>>
    ELSE <<package, count, "N/A", "N/A", "N/A">>

summary_rows(counts, snyk) ==
    [i \in 1..Len(counts) |-> summary_row(counts[i][1], counts[i][2], snyk)]

\* start: self.generate_reports(analysis_results), called without an
\* output_dir; then the finally clause, return 0, and main returns
GenerateReports ==
    /\ pc = "analyse"
    /\ FilesDone
    /\ pkg_idx = Len(package_counts)
    /\ written' = written \cup {<<report_dir(None), f>> : f \in ReportFiles}
    /\ summary_csv' = summary_rows(sorted_package_counts(package_counts),
                                   package_snyk_data)
    /\ UNCHANGED ignores_csv
    /\ exit_code' = "0"
    /\ db_conn' = "closed"
    /\ pc' = "done"
    /\ UNCHANGED <<args, walked, py_files, ipynb_files, file_idx,
                   imports_by_file, package_counts, failed_files, pkg_idx,
                   extractVars, fetchVars, otherVars>>

Next ==
    \/ \E connect \in {"ok", "ioerror", "other"} : Construct(connect)
    \/ \E exported \in BOOLEAN : ViewOverrides(exported)
    \/ \E exported \in BOOLEAN : ViewIgnores(exported)
    \/ Collect
    \/ \E err \in -1..MaxLines : ProcessFile(err)
    \/ \E o1 \in Outcomes : \E o2 \in SecondOutcomes(o1) : AnalyseLookup(o1, o2)
    \/ LookupRaises
    \/ GenerateReports

Spec == Init /\ [][Next]_vars

----------------------------------------------------------------------------
(* DuckDBConnectionLite._connect.  A text is a sequence of pieces; the
   prefixes "md:", "http://", "https://" and the suffix ".duckdb" are pieces
   of their own wherever they occur. *)

Targets ==
    {<<>>, <<"memory">>, <<":memory:">>, <<"memory", "x">>,
     <<"data", ".duckdb">>, <<".duckdb">>, <<"data", ".db">>,
     <<"md:", "db">>, <<"md:">>, <<"md:", "db", ".duckdb">>, <<"MD:", "db">>,
     <<"http://", "h/t.csv">>, <<"https://", "h/t.csv">>,
     <<"https://", "h/t", ".duckdb">>}

Tokens == {<<>>, <<"tok">>}

\* the keyword arguments: a key that is not passed reads as None
KwargsSet ==
    {[k \in {} |-> <<>>]}
      \cup {[k \in {"conn_type"} |-> t] : t \in Targets}
      \cup {[k \in {"md_token"} |-> m] : m \in Tokens}
      \cup {[k \in {"conn_type", "md_token"} |->
                IF k = "conn_type" THEN t ELSE m] : t \in Targets, m \in Tokens}

\* kwargs.get(key) is neither None nor ""
Truthy(kw, key) == key \in DOMAIN kw /\ kw[key] # <<>>

\* str.endswith and str.startswith on pieces
TextEndsWith(text, suffix) == text # <<>> /\ text[Len(text)] = suffix

TextStartsWith(text, prefix) == text # <<>> /\ text[1] = prefix

\* conn_type in [None, "", "memory", ":memory:"]
in_memory(kw) ==
    \/ "conn_type" \notin DOMAIN kw
    \/ kw["conn_type"] \in {<<>>, <<"memory">>, <<":memory:">>}

\* a plausible slip: the md: test placed before the .duckdb test
branch_md_first(kw) ==
    IF in_memory(kw) THEN "memory"
    ELSE IF TextStartsWith(kw["conn_type"], "md:") THEN "md"
    ELSE IF TextEndsWith(kw["conn_type"], ".duckdb") THEN "file"
    ELSE IF \/ TextStartsWith(kw["conn_type"], "http://")
            \/ TextStartsWith(kw["conn_type"], "https://") THEN "url"
    ELSE "unsupported"

\* the if / elif chain of _connect
branch(kw) ==
    IF in_memory(kw) THEN "memory"
    ELSE IF TextEndsWith(kw["conn_type"], ".duckdb") THEN "file"
    ELSE IF TextStartsWith(kw["conn_type"], "md:") THEN "md"
    ELSE IF \/ TextStartsWith(kw["conn_type"], "http://")
            \/ TextStartsWith(kw["conn_type"], "https://") THEN "url"
    ELSE "unsupported"

\* Path(conn_type).resolve(): the paths of the model are relative
resolve(path) == <<"/cwd/">> \o path

\* the argument of duckdb.connect in each branch
connect_target(kw) ==
    CASE branch(kw) = "file" -> resolve(kw["conn_type"])
      [] branch(kw) = "md" ->
            kw["conn_type"] \o <<"?motherduck_token=">> \o kw["md_token"]
      [] OTHER -> <<":memory:">>

Connection(target, tables) == [target |-> target, tables |-> tables]

InitConnect ==
    /\ kwargs \in KwargsSet
    /\ cpc = "called"
    /\ conn = Null
    /\ opened = <<>>
    /\ error = "none"
    /\ AuthIdle
    /\ ExtractIdle
    /\ FetchIdle
    /\ MainIdle

\* one call of _connect; connect_ok and execute_ok say whether duckdb.connect
\* and the CREATE TABLE of the URL branch succeed
Connect(connect_ok, execute_ok) ==
    /\ cpc = "called"
    /\ IF \/ branch(kwargs) = "unsupported"
          \/ branch(kwargs) = "md" /\ ~Truthy(kwargs, "md_token")
       THEN /\ error' = "ValueError"
            /\ cpc' = "raised"
            /\ UNCHANGED <<conn, opened>>
       ELSE /\ opened' = Append(opened, connect_target(kwargs))
            /\ IF connect_ok /\ (branch(kwargs) = "url" => execute_ok)
               THEN /\ conn' = Connection(connect_target(kwargs),
                                          IF branch(kwargs) = "url"
                                          THEN {"auto_table"} ELSE {})
                    /\ cpc' = "returned"
                    /\ UNCHANGED error
               ELSE /\ error' = "duckdb.Error"
                    /\ cpc' = "raised"
                    /\ UNCHANGED conn
    /\ UNCHANGED <<kwargs, authVars, extractVars, fetchVars, mainVars>>

NextConnect == \E connect_ok, execute_ok \in BOOLEAN : Connect(connect_ok, execute_ok)

SpecConnect == InitConnect /\ [][NextConnect]_vars

----------------------------------------------------------------------------
(* Auth (propelauth_app.py).  access_token 0 is None; the provider hands out
   tokens 1, 2, ... .  A handler is run on a state [access_token, issued,
   calls] and on the outcomes of the provider calls it is going to make, in
   order: "ok", "unauthorized" (UnauthorizedException) or "error" (any other
   exception).  Its result adds the outcome of the handler and the outcomes
   left over. *)

MaxTokens == 4

MaxProviderCalls == 4

ProviderOutcomes ==
    [1..MaxProviderCalls -> {"ok", "unauthorized", "error"}]

AuthState(token, n, calls) ==
    [access_token |-> token, issued |-> n, calls |-> calls]

AuthResult(st, outcome, rest) ==
    [access_token |-> st.access_token, issued |-> st.issued,
     calls |-> st.calls, outcome |-> outcome, rest |-> rest]

\* self.auth.validate_access_token_and_get_user(f"Bearer {self.access_token}")
validate(st, o) ==
    AuthResult(AuthState(st.access_token, st.issued,
                         Append(st.calls, "validate")),
               IF o[1] = "ok" THEN "user" ELSE o[1], Tail(o))

force_refresh_user(st, o) ==
    IF o[1] # "ok"
    THEN AuthResult(AuthState(st.access_token, st.issued,
                              Append(st.calls, "create")), o[1], Tail(o))
    ELSE validate(AuthState(st.issued + 1, st.issued + 1,
                            Append(st.calls, "create")), Tail(o))

\* a plausible slip: no test of access_token before validating
get_user_validate_first(st, o) ==
    LET r == validate(st, o)
    IN  IF r.outcome = "unauthorized"
        THEN force_refresh_user(r, r.rest)
        ELSE r

get_user(st, o) ==
    LET r == IF st.access_token = 0
             THEN force_refresh_user(st, o)
             ELSE validate(st, o)
    IN  IF r.outcome = "unauthorized"
        THEN force_refresh_user(r, r.rest)
        ELSE r

\* outcome "none" is the return of None
login(st, o) ==
    IF o[1] # "ok"
    THEN AuthResult(AuthState(st.access_token, st.issued,
                              Append(st.calls, "login")),
                    IF o[1] = "unauthorized" THEN "none" ELSE o[1], Tail(o))
    ELSE LET r == get_user(AuthState(st.issued + 1, st.issued + 1,
                                     Append(st.calls, "login")), Tail(o))
         IN  IF r.outcome = "unauthorized"
             THEN [r EXCEPT !.outcome = "none"]
             ELSE r

logout(st, o) ==
    IF o[1] # "ok"
    THEN AuthResult(AuthState(st.access_token, st.issued,
                              Append(st.calls, "logout")), o[1], Tail(o))
    ELSE AuthResult(AuthState(0, st.issued, Append(st.calls, "logout")),
                    "done", Tail(o))

AuthCall(op, r) ==
    [op |-> op, outcome |-> r.outcome, calls |-> r.calls,
     before |-> access_token]

InitAuth ==
    /\ AuthIdle
    /\ ConnectIdle
    /\ ExtractIdle
    /\ FetchIdle
    /\ MainIdle

Finish(op, r) ==
    /\ r.issued <= MaxTokens
    /\ access_token' = r.access_token
    /\ issued' = r.issued
    /\ auth_call' = AuthCall(op, r)
    /\ UNCHANGED <<connectVars, extractVars, fetchVars, mainVars>>

Login(o) == Finish("login", login(AuthState(access_token, issued, <<>>), o))

GetUser(o) ==
    Finish("get_user", get_user(AuthState(access_token, issued, <<>>), o))

Logout(o) == Finish("logout", logout(AuthState(access_token, issued, <<>>), o))

NextAuth ==
    \/ \E o \in ProviderOutcomes : Login(o)
    \/ \E o \in ProviderOutcomes : GetUser(o)
    \/ \E o \in ProviderOutcomes : Logout(o)

SpecAuth == InitAuth /\ [][NextAuth]_vars

----------------------------------------------------------------------------
(* Claims about process_python_file *)

NonBlank(text) == SelectSeq(text, LAMBDA l : Strip(l) # <<>>)

Packages(stmts) == [i \in 1..Len(stmts) |-> stmts[i][2]]

TwoImportTexts ==
    {t \in Texts : NonBlank(t) = <<LineImportOs, LineFromCollections>>}

\* C1: a file whose only non-blank lines are `import os` and
\* `from collections import defaultdict` yields exactly two pairs, with the
\* packages os and collections, in line order.
C1_TwoImportsTwoPairs ==
    (fstate = "returned" /\ file_text \in TwoImportTexts)
        => Packages(import_statements) = <<"os", "collections">>

ThreeLineImports ==
    {<<LineFromXOpenA, LineB, LineCClose>>, <<LineFromXOpen, LineABC, LineClose>>}

\* C2: for a parenthesised `from x import (a, b, c)` spread over 3 lines the
\* extractor is in the multi-line state after the first line and returns
\* exactly one statement, whose package is x.
C2_MultiLineOneStatement ==
    file_text \in ThreeLineImports =>
        /\ line_no = 1 => in_multiline_import
        /\ fstate = "returned" => Packages(import_statements) = <<"x">>

----------------------------------------------------------------------------
(* Claims about fetch_snyk_data *)

ThirdParty(p) ==
    /\ ~StartsWith(p, local_package_rule(config))
    /\ ~is_stdlib(p, python_version)

\* this step is a call of fetch_snyk_data for package p
IsCall(p) == ncalls' = ncalls + 1 /\ last'.pkg = p

HasRow(ovr, p, s) == \E i \in 1..Len(ovr) : ovr[i] = <<p, s>>

\* C3 as stated: a call for a third-party package that was already looked up
\* in this run issues no HTTP request, whatever the earlier call returned.
C3_SecondCallNoRequest ==
    [][\A p \in PackageNames :
          (IsCall(p) /\ p \in looked /\ ThirdParty(p)) => last'.urls = <<>>]_vars

\* C3 amended: a call for a third-party package for which an earlier call of
\* this run returned data is a cache hit and issues no HTTP request.
C3_SecondCallAfterData ==
    [][\A p \in PackageNames :
          (IsCall(p) /\ p \in DOMAIN package_snyk_data /\ ThirdParty(p))
              => (last'.hit /\ last'.urls = <<>> /\ last'.result # Null)]_vars

\* the second call for a_b in the run in which its swapped URL succeeded
C3_Witness ==
    /\ run = 1
    /\ looked = {"a_b"}
    /\ ncalls >= 2
    /\ overrides = << <<"a_b", "a-b">> >>
    /\ last.pkg = "a_b" /\ last.lookup = "a-b" /\ last.hit /\ last.urls = <<>>

\* C4: a resolution through the swapped name is persisted as an override row,
\* rows stay over later runs, and a lookup made with an empty cache for a
\* package with a row uses the row's name as lookup name; if that first
\* request is answered with the page, it is the only request, data is
\* returned and no row is written.
C4_OverrideRoundTrip ==
    [][\A p \in PackageNames :
          LET s == swapped_package_name(p)
          IN  /\ (IsCall(p) /\ last'.resp = <<"status", "page">> /\ s # p)
                    => HasRow(overrides', p, s)
              /\ HasRow(overrides, p, s) => HasRow(overrides', p, s)
              /\ (IsCall(p) /\ HasRow(overrides, p, s)
                    /\ snyk_data_cache = EmptyDict)
                    => /\ last'.lookup = s
                       /\ ~last'.hit
                       /\ last'.urls[1] = s
                       /\ last'.resp[1] = "page"
                             => /\ last'.urls = <<s>>
                                /\ last'.result # Null
                                /\ overrides' = overrides]_vars

\* a_b, resolved through a-b in run 1, is resolved by one request in run 2
C4_Witness ==
    /\ run = 2
    /\ looked = {"a_b"}
    /\ overrides = << <<"a_b", "a-b">> >>
    /\ last.pkg = "a_b" /\ last.lookup = "a-b" /\ ~last.hit
    /\ last.urls = <<"a-b">> /\ last.result # Null /\ ~last.wrote

\* C5: the override table holds at most one row per package_name.
C5_OneRowPerPackage ==
    \A p \in PackageNames : Cardinality(OverrideRows(overrides, p)) <= 1

\* the fallback succeeds for a package that already has a row
C5_Witness ==
    /\ last.resp = <<"status", "page">>
    /\ ~last.wrote
    /\ OverrideRows(overrides, last.pkg) # {}
    /\ last.lookup # last.pkg

----------------------------------------------------------------------------
(* Claims about main, start and analyse_imports *)

\* C6: on every path by which main finishes, a connection that was opened
\* has been closed.
C6_ConnectionClosedAtExit == pc = "done" => db_conn # "open"

CountNotFound(p) ==
    Cardinality({i \in 1..Len(snyk_not_found_packages) :
                    snyk_not_found_packages[i].name = p})

\* C7: at the end of an analysis run the not-found list holds exactly one
\* entry for every third-party package whose lookup returned null and none
\* for a package whose lookup returned data.
C7_NotFoundOncePerFailure ==
    (pc = "done" /\ exit_code = "0") =>
        \A p \in looked :
            ThirdParty(p) =>
                CountNotFound(p) = IF p \in DOMAIN package_snyk_data THEN 0 ELSE 1

RECURSIVE SumCounts(_)
SumCounts(counts) ==
    IF counts = <<>> THEN 0 ELSE Head(counts)[2] + SumCounts(Tail(counts))

RECURSIVE SumStatements(_)
SumStatements(files) ==
    IF files = {} THEN 0
    ELSE LET f == CHOOSE g \in files : TRUE
         IN  Len(imports_by_file[f]) + SumStatements(files \ {f})

\* C8: a file whose reading or parsing raised contributes no import to
\* imports_by_file and none to package_counts.
C8_FailedFileContributesNothing ==
    /\ \A f \in failed_files : f \notin DOMAIN imports_by_file
    /\ SumCounts(package_counts)
          = SumStatements(DOMAIN imports_by_file \ failed_files)

\* C9: with --output DIR the three report files are written into DIR, and
\* into the current directory only when --output is absent.
C9_ReportsInOutputDir ==
    (pc = "done" /\ exit_code = "0") =>
        \A f \in ReportFiles :
            /\ <<IF args.output # None THEN args.output ELSE Cwd, f>> \in written
            /\ args.output # None => <<Cwd, f>> \notin written

\* str.split(",")
RECURSIVE SplitComma(_, _)
SplitComma(cs, acc) ==
    IF cs = <<>> THEN <<acc>>
    ELSE IF Head(cs) = "," THEN <<acc>> \o SplitComma(Tail(cs), <<>>)
    ELSE SplitComma(Tail(cs), Append(acc, Head(cs)))

\* d is one of the names D1, D2, ... of --exclude (.venv without --exclude)
Listed(d, arg) ==
    IF arg = None THEN d = ".venv"
    ELSE Spell(d) \in Range(SplitComma(Spell(arg), <<>>))

\* C10: a directory under the root is walked iff neither its name nor the
\* name of a directory above it is exactly one of the names of --exclude.
C10_ExcludeExactNames ==
    walked # <<>> =>
        \A i \in 2..Len(Tree) :
            Tree[i].path \in Range(walked)
                <=> \A j \in 1..Len(Tree[i].path) :
                        ~Listed(Tree[i].path[j], args.exclude)

----------------------------------------------------------------------------
(* Claims about analyse_imports and the reports *)

\* number of pairs with package p in a list of statements
Occurrences(stmts, p) == Cardinality({i \in 1..Len(stmts) : stmts[i][2] = p})

RECURSIVE TotalOccurrences(_, _)
TotalOccurrences(files, p) ==
    IF files = {} THEN 0
    ELSE LET f == CHOOSE g \in files : TRUE
         IN  Occurrences(imports_by_file[f], p)
                + TotalOccurrences(files \ {f}, p)

CountOf(p) ==
    IF \E i \in 1..Len(package_counts) : package_counts[i][1] = p
    THEN package_counts[CHOOSE i \in 1..Len(package_counts) :
                            package_counts[i][1] = p][2]
    ELSE 0

\* C11: package_counts[p] is the number of extracted pairs with package p
\* over all files processed, each package is one key, and no key has count 0.
C11_CountsAreOccurrences ==
    /\ \A i, j \in 1..Len(package_counts) :
          package_counts[i][1] = package_counts[j][1] => i = j
    /\ \A i \in 1..Len(package_counts) :
          /\ package_counts[i][2] >= 1
          /\ package_counts[i][2]
                = TotalOccurrences(DOMAIN imports_by_file, package_counts[i][1])
    /\ \A f \in DOMAIN imports_by_file :
          \A i \in 1..Len(imports_by_file[f]) :
              CountOf(imports_by_file[f][i][2]) >= 1

\* a package imported by two files of a finished analysis
C11_Witness ==
    /\ pc = "done"
    /\ exit_code = "0"
    /\ Cardinality(DOMAIN imports_by_file) >= 3
    /\ \E i \in 1..Len(package_counts) : package_counts[i][2] = 2

\* C12: no lookup is made, and none is aborted, before every collected file
\* has been processed.
C12_FilesBeforeLookups ==
    /\ (ncalls > 0 \/ looked # {} \/ pkg_idx > 0)
          => file_idx = Len(py_files) + Len(ipynb_files)
    /\ (exit_code = "1" /\ walked # <<>>)
          => file_idx = Len(py_files) + Len(ipynb_files)

\* the first lookup of a run over source files and a notebook
C12_Witness ==
    /\ ncalls = 1
    /\ Len(py_files) >= 2
    /\ Len(ipynb_files) >= 1
    /\ file_idx = Len(py_files) + Len(ipynb_files)

\* the statements of the processed files, in the order of the scan
RECURSIVE ScanOrder(_)
ScanOrder(files) ==
    IF files = <<>> THEN <<>>
    ELSE (IF Head(files) \in DOMAIN imports_by_file
          THEN imports_by_file[Head(files)] ELSE <<>>)
            \o ScanOrder(Tail(files))

FirstSeen(p) ==
    LET scan == ScanOrder(AllFiles)
    IN  CHOOSE i \in 1..Len(scan) :
            /\ scan[i][2] = p
            /\ \A j \in 1..(i - 1) : scan[j][2] # p

\* C13: import_summary.csv has one row per distinct package with its count,
\* rows in non-increasing order of count, equal counts in the order the
\* packages were first met by the scan, and N/A in the three snyk columns
\* of a package without health data.
C13_SummaryRows ==
    (pc = "done" /\ exit_code = "0") =>
        LET scan == ScanOrder(AllFiles)
            pkgs == {scan[i][2] : i \in 1..Len(scan)}
        IN  /\ Len(summary_csv) = Cardinality(pkgs)
            /\ \A p \in pkgs :
                  Cardinality({i \in 1..Len(summary_csv) :
                                  summary_csv[i][1] = p}) = 1
            /\ \A i \in 1..Len(summary_csv) :
                  /\ summary_csv[i][1] \in pkgs
                  /\ summary_csv[i][2] = Occurrences(scan, summary_csv[i][1])
                  /\ summary_csv[i][1] \notin DOMAIN package_snyk_data
                        => /\ summary_csv[i][3] = "N/A"
                           /\ summary_csv[i][4] = "N/A"
                           /\ summary_csv[i][5] = "N/A"
            /\ \A i, j \in 1..Len(summary_csv) :
                  i < j =>
                    /\ summary_csv[i][2] >= summary_csv[j][2]
                    /\ summary_csv[i][2] = summary_csv[j][2]
                          => FirstSeen(summary_csv[i][1])
                                < FirstSeen(summary_csv[j][1])

\* a summary whose order differs from the order of the scan, with two
\* packages of equal count and one without health data
C13_Witness ==
    /\ pc = "done"
    /\ exit_code = "0"
    /\ Len(summary_csv) >= 3
    /\ \E i \in 1..Len(summary_csv) : summary_csv[i][1] # package_counts[i][1]
    /\ \E i \in 1..Len(summary_csv) : \E j \in 1..Len(summary_csv) :
          i < j /\ summary_csv[i][2] = summary_csv[j][2]
    /\ \E i \in 1..Len(summary_csv) :
          /\ summary_csv[i][1] \notin DOMAIN package_snyk_data
          /\ summary_csv[i][3] = "N/A"

----------------------------------------------------------------------------
(* Claims about the classification and the requests of a lookup *)

\* the three names of the specification's example, under the default rule
C14_Examples ==
    (last.pkg # None /\ config = NoConfig /\ python_version = "3.12") =>
        /\ last.pkg = "src.util" => last.result.health_score = "local"
        /\ last.pkg = "os" => last.result.health_score = "stdlib"
        /\ last.pkg = "ab" => last.lookup = "ab"

\* C14: a name starting with the local rule (default "src.") is local; any
\* other name in the stdlib list of the running version is stdlib, and a
\* version without a list has no stdlib names; every other name goes on to
\* the override table, the cache and the advisor.
C14_ClassificationPriority ==
    last.pkg # None =>
      /\ C14_Examples
      /\
        LET rule == IF "local_package_rule" \in DOMAIN config
                    THEN config["local_package_rule"] ELSE "src."
            n == Len(Spell(rule))
        IN  IF /\ Len(Spell(last.pkg)) >= n
               /\ SubSeq(Spell(last.pkg), 1, n) = Spell(rule)
            THEN /\ last.result = SnykData(last.pkg, "N/A", "local")
                 /\ last.lookup = None
                 /\ last.urls = <<>>
            ELSE IF python_version = "3.12" /\ last.pkg \in {"os", "collections"}
            THEN /\ last.result = SnykData(last.pkg, "N/A", "stdlib")
                 /\ last.lookup = None
                 /\ last.urls = <<>>
            ELSE /\ last.lookup # None
                 /\ last.result # Null => last.result.health_score = "80"
                 /\ ~last.hit /\ last.result = Null => last.urls # <<>>

\* "os" under the rule "os": local although it is in the stdlib list
C14_Witness ==
    /\ last.pkg = "os"
    /\ python_version = "3.12"
    /\ local_package_rule(config) = "os"
    /\ last.result = SnykData("os", "N/A", "local")

----------------------------------------------------------------------------
(* Claims about the runs that do no analysis *)

AnalysisRequested == ~args.view_overrides /\ ~args.view_ignores

NothingAnalysed ==
    /\ walked = <<>>
    /\ py_files = <<>>
    /\ ipynb_files = <<>>
    /\ file_idx = 0
    /\ imports_by_file = EmptyDict
    /\ package_counts = <<>>
    /\ ncalls = 0
    /\ looked = {}
    /\ last = NoCall
    /\ \A f \in ReportFiles, d \in {Cwd, "out"} : <<d, f>> \notin written
    /\ summary_csv = <<>>

\* C15: when the root is missing or is not a directory, no file is read, no
\* import is extracted, no lookup is made and no report is written, and
\* start returns 1.
C15_BadRootFailsFirst ==
    ~args.directory_ok =>
        /\ NothingAnalysed
        /\ (pc = "done" /\ AnalysisRequested /\ db_conn # "unset"
              /\ db_conn # "none") => exit_code = "1"
        /\ exit_code # "0"

\* start has returned 1 for a root that is not a directory
C15_Witness ==
    /\ ~args.directory_ok
    /\ AnalysisRequested
    /\ pc = "done"
    /\ exit_code = "1"
    /\ db_conn = "closed"

----------------------------------------------------------------------------
(* Claims about lines that are not code *)

\* white space only, or "#" as the first character that is not white space
BlankOrComment(raw) ==
    \A i \in 1..Len(raw) :
        (raw[i] # " " /\ \A j \in 1..(i - 1) : raw[j] = " ") => raw[i] = "#"

CommentOnly(text) == \A i \in 1..Len(text) : BlankOrComment(text[i])

\* C16: while a file (or a code cell of a notebook) of blank and comment
\* lines only is read, no statement is collected and the multi-line state is
\* never entered.
C16_CommentsYieldNothing ==
    CommentOnly(file_text) =>
        /\ import_statements = <<>>
        /\ ~in_multiline_import
        /\ current_import = <<>>
        /\ process_jupyter_notebook(
              <<[cell_type |-> "code", source |-> file_text]>>, -1) = <<>>
        /\ \A k \in 0..Len(file_text) :
              ~FoldLines(StartState, SubSeq(file_text, 1, k)).in_multiline_import

\* a file of a comment, a blank line and a commented import, read to its end
C16_Witness ==
    /\ fstate = "returned"
    /\ file_text = <<LineComment, LineSpaces, LineCommentedImport>>
    /\ import_statements = <<>>

\* C17: with --view-overrides or --view-ignores no step of the run collects
\* a file, looks a package up, writes a report or changes the override
\* table; with --view-overrides, alone or with --view-ignores, only the
\* export of the overrides is written.
C17_ViewsDoNoAnalysis ==
    [][(args.view_overrides \/ args.view_ignores) =>
          /\ NothingAnalysed'
          /\ overrides' = overrides
          /\ snyk_data_cache' = snyk_data_cache
          /\ written' \subseteq
                (IF args.view_overrides THEN {<<Cwd, "snyk_overrides.csv">>}
                 ELSE {<<Cwd, "snyk_ignores.csv">>})]_vars

\* both flags given, and the export of the overrides written
C17_Witness ==
    /\ args.view_overrides
    /\ args.view_ignores
    /\ pc = "done"
    /\ written = {<<Cwd, "snyk_overrides.csv">>}
    /\ overrides # <<>>

\* C18: when the override database cannot be opened, whether duckdb raised
\* an I/O error or anything else, the constructor raises and the run ends
\* there: nothing is collected, looked up or written, and no later step runs
\* with a missing connection.
C18_NoAnalyserWithoutConnection ==
    (db_conn \in {"unset", "none"}) =>
        /\ pc \in {"args", "done"}
        /\ NothingAnalysed
        /\ written = {}
        /\ pc = "done" => exit_code = "exception"
        /\ pc = "args" => exit_code = None

\* duckdb.connect raised something other than an I/O error, the connection
\* is None and the constructor has raised
C18_Witness ==
    /\ db_conn = "none"
    /\ pc = "done"
    /\ exit_code = "exception"

----------------------------------------------------------------------------
(* Claims about the requests and the override rows of one lookup *)

\* outcomes of a request that give no record: an HTTP error status, no
\* answer, or a page without the name or the version
Failed == {"status", "neterr", "noelem"}

\* C19: a lookup that misses the cache sends one or two GETs, the first for
\* the lookup name; the second, for the swapped name, only after the first
\* was answered with an HTTP error status; when the second fails as well the
\* package is appended to the not-found list, null is returned, and the
\* cache and the override table are left as they were.
C19_AtMostTwoRequests ==
    [][\A p \in PackageNames :
          (IsCall(p) /\ last'.lookup # None /\ ~last'.hit) =>
              /\ Len(last'.urls) \in {1, 2}
              /\ Len(last'.resp) = Len(last'.urls)
              /\ last'.urls[1] = last'.lookup
              /\ Len(last'.urls) = 2 =>
                    /\ last'.resp[1] = "status"
                    /\ last'.urls[2] = swapped_package_name(p)
              /\ (Len(last'.urls) = 2 /\ last'.resp[2] \in Failed) =>
                    /\ last'.result = Null
                    /\ snyk_not_found_packages' =
                          Append(snyk_not_found_packages,
                                 [name |-> p, snyk_url |-> last'.lookup])
                    /\ snyk_data_cache' = snyk_data_cache
                    /\ overrides' = overrides]_vars

\* both URLs of a_b answered with an HTTP error status
C19_Witness ==
    /\ last.pkg = "a_b"
    /\ last.urls = <<"a_b", "a-b">>
    /\ last.resp = <<"status", "status">>
    /\ last.result = Null
    /\ snyk_not_found_packages # <<>>
    /\ snyk_not_found_packages[Len(snyk_not_found_packages)].name = "a_b"

\* C20: the override table changes only by a lookup that missed the cache,
\* got an HTTP error status for its first URL and a page with name and
\* version for the swapped URL, and whose lookup name is not the swapped
\* name; the change is the one row (package_name, swapped name).
C20_RowOnlyAfterFallback ==
    [][overrides' # overrides =>
          \E p \in PackageNames :
              /\ IsCall(p)
              /\ ~last'.hit
              /\ last'.resp = <<"status", "page">>
              /\ last'.result # Null
              /\ Len(last'.urls) = 2
              /\ last'.lookup # last'.urls[2]
              /\ overrides' = Append(overrides, <<p, last'.urls[2]>>)]_vars

\* the row (a_b, a-b) written by the first lookup of a_b
C20_Witness ==
    /\ last.pkg = "a_b"
    /\ last.wrote
    /\ last.resp = <<"status", "page">>
    /\ last.urls = <<"a_b", "a-b">>
    /\ overrides # <<>>
    /\ overrides[Len(overrides)] = <<"a_b", "a-b">>

----------------------------------------------------------------------------
(* Claims about the cache *)

\* the name a lookup of p would use with the table as it is: the name of a
\* row of p, or p
LookupNames(p) ==
    IF OverrideRows(overrides, p) = {} THEN {p}
    ELSE {overrides[i][2] : i \in OverrideRows(overrides, p)}

\* C21: a lookup of a third-party package whose lookup name is a key of the
\* cache returns the cached record without delay and without a request, and
\* leaves the cache, the override table and the not-found list as they were.
C21_CacheHitHasNoEffect ==
    [][\A p \in PackageNames :
          (IsCall(p) /\ ThirdParty(p) /\ LookupNames(p) \subseteq DOMAIN snyk_data_cache)
          => /\ last'.hit
             /\ last'.lookup \in LookupNames(p)
             /\ last'.result = snyk_data_cache[last'.lookup]
             /\ ~last'.slept
             /\ last'.urls = <<>>
             /\ snyk_data_cache' = snyk_data_cache
             /\ overrides' = overrides
             /\ snyk_not_found_packages' = snyk_not_found_packages]_vars

\* a hit for a_b under its overridden name a-b, with a not-found entry of an
\* earlier lookup still in the list
C21_Witness ==
    /\ last.pkg = "a_b"
    /\ last.lookup = "a-b"
    /\ last.hit
    /\ ~last.slept
    /\ "a_b" \notin DOMAIN snyk_data_cache
    /\ snyk_not_found_packages # <<>>

\* C22: within a run no key leaves the cache and no entry is null; an entry
\* is only set by a lookup whose last request was answered with the page,
\* under the name of that request, and it is the record the lookup returns.
C22_CacheOnlyGrows ==
    [][run' = run =>
          /\ DOMAIN snyk_data_cache \subseteq DOMAIN snyk_data_cache'
          /\ \A k \in DOMAIN snyk_data_cache' :
                /\ snyk_data_cache'[k] # Null
                /\ (k \notin DOMAIN snyk_data_cache
                      \/ snyk_data_cache'[k] # snyk_data_cache[k])
                   => /\ ncalls' = ncalls + 1
                      /\ last'.urls # <<>>
                      /\ last'.resp[Len(last'.resp)] = "page"
                      /\ k = last'.urls[Len(last'.urls)]
                      /\ snyk_data_cache'[k] = last'.result]_vars

\* the cache after a lookup answered by its first URL and one answered by
\* the swapped URL
C22_Witness ==
    /\ Cardinality(DOMAIN snyk_data_cache) >= 2
    /\ last.resp = <<"status", "page">>
    /\ last.lookup \notin DOMAIN snyk_data_cache
    /\ last.urls[2] \in DOMAIN snyk_data_cache
    /\ snyk_data_cache[last.urls[2]] = last.result

----------------------------------------------------------------------------
(* Claims about the cells of a notebook and the multi-line state *)

CodeCell(lines) == [cell_type |-> "code", source |-> lines]

MarkdownCell(lines) == [cell_type |-> "markdown", source |-> lines]

\* C23: whatever the text and wherever it is cut into two code cells, with a
\* markdown cell of the same text between them, a notebook yields the
\* statements of the first cell followed by those of the second cell scanned
\* from a fresh state: the markdown cell is not scanned and an import left
\* open by the first cell takes nothing from the second.
C23_CellsAreIndependent ==
    \A k \in 0..Len(file_text) :
        LET a == SubSeq(file_text, 1, k)
            b == SubSeq(file_text, k + 1, Len(file_text))
        IN  process_jupyter_notebook(
                <<CodeCell(a), MarkdownCell(file_text), CodeCell(b)>>, -1)
              = FoldLines(StartState, a).import_statements
                  \o FoldLines(StartState, b).import_statements

\* read as one file the open import absorbs `import os`; as two cells the
\* open import is dropped and `import os` is extracted
C23_Witness ==
    /\ fstate = "returned"
    /\ file_text = <<LineFromDottedOpen, LineImportOs>>
    /\ import_statements = <<>>
    /\ process_jupyter_notebook(
          <<CodeCell(<<LineFromDottedOpen>>), CodeCell(<<LineImportOs>>)>>, -1)
        = << <<LineImportOs, "os">> >>

\* the line without its leading and trailing white space
Trimmed(raw) ==
    LET ns == {i \in 1..Len(raw) : raw[i] # " "}
    IN  IF ns = {} THEN <<>>
        ELSE SubSeq(raw, CHOOSE i \in ns : \A j \in ns : i <= j,
                         CHOOSE i \in ns : \A j \in ns : j <= i)

Opens(raw) == "(" \in Range(raw) /\ ")" \notin Range(raw)

\* C24: in process_python_file the multi-line state is entered exactly by a
\* matched import line with "(" and without ")", which becomes the pending
\* statement; in that state a blank or comment line changes nothing, a line
\* without ")" is appended to the pending statement and collects nothing,
\* and a line with ")" ends the state, empties the pending statement and
\* collects at most one statement, the whole accumulation; the end of the
\* file collects nothing.
C24_MultiLineAccumulates ==
    [][/\ (line_no' = line_no + 1 /\ in_multiline_import) =>
            LET raw == file_text[line_no + 1]
                cur == current_import \o <<" ">> \o Trimmed(raw)
            IN  IF BlankOrComment(raw)
                THEN /\ in_multiline_import'
                     /\ current_import' = current_import
                     /\ import_statements' = import_statements
                ELSE IF ")" \notin Range(raw)
                THEN /\ in_multiline_import'
                     /\ current_import' = cur
                     /\ import_statements' = import_statements
                ELSE /\ ~in_multiline_import'
                     /\ current_import' = <<>>
                     /\ \/ import_statements' = import_statements
                        \/ /\ Len(import_statements')
                                = Len(import_statements) + 1
                           /\ SubSeq(import_statements', 1,
                                     Len(import_statements))
                                = import_statements
                           /\ import_statements'[Len(import_statements')][1]
                                = cur
       /\ (line_no' = line_no + 1 /\ ~in_multiline_import) =>
            LET raw == file_text[line_no + 1]
            IN  /\ in_multiline_import'
                      <=> (/\ ~BlankOrComment(raw)
                           /\ import_patterns(Trimmed(raw))
                           /\ Opens(raw))
                /\ in_multiline_import' =>
                      /\ current_import' = Trimmed(raw)
                      /\ import_statements' = import_statements
       /\ line_no' = line_no =>
            /\ import_statements' = import_statements
            /\ in_multiline_import' = in_multiline_import]_vars

\* the file ended in the multi-line state: `import os` was appended to the
\* pending statement, and nothing was collected
C24_Witness ==
    /\ fstate = "returned"
    /\ file_text = <<LineFromDottedOpen, LineImportOs, LineComment>>
    /\ in_multiline_import
    /\ current_import = LineFromDottedOpen \o <<" ">> \o LineImportOs
    /\ import_statements = <<>>

----------------------------------------------------------------------------
(* Claims about the names a lookup requests *)

\* underscores replaced by hyphens if there are any, otherwise hyphens by
\* underscores, for the names of the model
Swapped(p) ==
    CASE p = "a_b" -> "a-b"
      [] p = "a-b" -> "a_b"
      [] OTHER -> p

----------------------------------------------------------------------------
(* Claims about the names the extractor produces *)

\* C26: every package collected from a file is spelled without "." and
\* without "-", and under the default configuration fetch_snyk_data does
\* not classify it local, for any version.
C26_PackagesAreIdentifiers ==
    \A i \in 1..Len(import_statements) :
        LET p == import_statements[i][2]
        IN  /\ p # None
            /\ p \notin Punct
            /\ "." \notin Range(Spell(p))
            /\ "-" \notin Range(Spell(p))
            /\ \A v \in PythonVersions :
                  fetch_snyk_data(p, NoConfig, v, EmptyDict, <<>>, 0,
                                  "page", "page").result.health_score
                    # "local"

\* `import src.util` yields the package src, `import a-b` yields nothing
C26_Witness ==
    /\ fstate = "returned"
    /\ file_text = <<LineImportSrc, LineImportHyphen, LineImportDotted>>
    /\ import_statements
          = << <<LineImportSrc, "src">>, <<LineImportDotted, "a_b">> >>

----------------------------------------------------------------------------
(* Claims about local and stdlib packages *)

IsLocalName(p) ==
    LET rule == IF "local_package_rule" \in DOMAIN config
                THEN config["local_package_rule"] ELSE "src."
        n == Len(Spell(rule))
    IN  Len(Spell(p)) >= n /\ SubSeq(Spell(p), 1, n) = Spell(rule)

IsStdlibName(p) == python_version = "3.12" /\ p \in {"os", "collections"}

\* C27: a lookup of a local or stdlib package does not read or change the
\* override table, does not sleep, sends no request, and leaves the cache
\* and the not-found list as they were; it returns the record of the package
\* with version N/A and health score local or stdlib.
C27_LocalStdlibNoEffect ==
    [][\A p \in PackageNames :
          (IsCall(p) /\ (IsLocalName(p) \/ IsStdlibName(p))) =>
              /\ last'.lookup = None
              /\ ~last'.hit
              /\ ~last'.slept
              /\ last'.urls = <<>>
              /\ ~last'.wrote
              /\ overrides' = overrides
              /\ snyk_data_cache' = snyk_data_cache
              /\ snyk_not_found_packages' = snyk_not_found_packages
              /\ last'.result =
                    [package_name |-> p, version |-> "N/A",
                     health_score |-> IF IsLocalName(p) THEN "local"
                                      ELSE "stdlib"]]_vars

\* os resolved as stdlib in a run that has a cache entry, an override row
\* and a not-found entry
C27_Witness ==
    /\ last.pkg = "os"
    /\ last.result = SnykData("os", "N/A", "stdlib")
    /\ last.lookup = None
    /\ snyk_data_cache # EmptyDict
    /\ overrides # <<>>
    /\ snyk_not_found_packages # <<>>

----------------------------------------------------------------------------
(* Claims about the ignore list *)

\* C28: every step of a run is also a step of the run whose configuration
\* has another ignore list: a lookup answered in the same way has the same
\* classification, requests, result and effects, and a lookup that aborts
\* the run aborts it there too;
\* the files collected and the reports do not change with the list, and the
\* list is only written out by the --view-ignores export.
C28_IgnoreListHasNoInfluence ==
    [][\A c2 \in RunConfigs :
          /\ ncalls' = ncalls + 1 =>
                \E row \in FetchOne(overrides, last'.pkg) :
                    LET o1 == IF last'.resp = <<>> THEN "page"
                              ELSE last'.resp[1]
                        o2 == IF Len(last'.resp) < 2 THEN o1
                              ELSE last'.resp[2]
                        eff == fetch_snyk_data(last'.pkg, c2, python_version,
                                               snyk_data_cache, overrides,
                                               row, o1, o2)
                    IN  /\ last' = CallRecord(last'.pkg, eff, overrides)
                        /\ snyk_data_cache' = eff.cache
                        /\ overrides' = eff.overrides
                        /\ snyk_not_found_packages'
                              = snyk_not_found_packages \o eff.not_found
          /\ (pc = "analyse" /\ exit_code' = "1") =>
                ~StartsWith(package_counts[pkg_idx + 1][1],
                            local_package_rule(c2))
          /\ ignores_csv' # ignores_csv =>
                /\ args.view_ignores
                /\ ~args.view_overrides
                /\ ignores_csv' = config["snyk_ignores"]
          /\ (~args.view_ignores \/ args.view_overrides) =>
                /\ ignores_csv' = <<>>
                /\ <<Cwd, "snyk_ignores.csv">> \notin written']_vars

\* a finished analysis of files importing os, under an ignore list naming os:
\* os was looked up and has its row in the summary
C28_Witness ==
    /\ "snyk_ignores" \in DOMAIN config
    /\ config["snyk_ignores"] = <<"os">>
    /\ pc = "done"
    /\ exit_code = "0"
    /\ "os" \in looked
    /\ \E i \in 1..Len(summary_csv) : summary_csv[i][1] = "os"

----------------------------------------------------------------------------
(* Claims about DuckDBConnectionLite._connect *)

ConnType == IF "conn_type" \in DOMAIN kwargs THEN kwargs["conn_type"] ELSE <<>>

IsMemoryTarget ==
    \/ "conn_type" \notin DOMAIN kwargs
    \/ ConnType \in {<<>>, <<"memory">>, <<":memory:">>}

IsFileTarget == ~IsMemoryTarget /\ ConnType[Len(ConnType)] = ".duckdb"

IsMdTarget == ~IsMemoryTarget /\ ~IsFileTarget /\ ConnType[1] = "md:"

IsUrlTarget ==
    /\ ~IsMemoryTarget /\ ~IsFileTarget /\ ~IsMdTarget
    /\ ConnType[1] \in {"http://", "https://"}

HasToken == "md_token" \in DOMAIN kwargs /\ kwargs["md_token"] # <<>>

\* C29: _connect tries the in-memory names first, then the suffix .duckdb,
\* then the prefix md:, then http:// and https://; a connection is returned
\* only for one of these, opened on the target of that branch; an md: target
\* without a token and a target of no branch raise ValueError with no call
\* of duckdb.connect.
C29_ConnectDispatch ==
    /\ cpc = "returned" =>
          /\ error = "none"
          /\ opened = <<conn.target>>
          /\ \/ IsMemoryTarget /\ conn = Connection(<<":memory:">>, {})
             \/ IsFileTarget /\ conn = Connection(<<"/cwd/">> \o ConnType, {})
             \/ /\ IsMdTarget /\ HasToken
                /\ conn = Connection(ConnType \o <<"?motherduck_token=">>
                                        \o kwargs["md_token"], {})
             \/ IsUrlTarget /\ conn = Connection(<<":memory:">>, {"auto_table"})
    /\ cpc = "raised" => conn = Null
    /\ (cpc # "called" /\ IsMdTarget /\ ~HasToken) =>
          /\ cpc = "raised" /\ error = "ValueError" /\ opened = <<>>
    /\ (cpc # "called" /\ ~IsMemoryTarget /\ ~IsFileTarget /\ ~IsMdTarget
          /\ ~IsUrlTarget) =>
          /\ cpc = "raised" /\ error = "ValueError" /\ opened = <<>>
    /\ (cpc = "raised" /\ error = "ValueError") =>
          (IsMdTarget /\ ~HasToken) \/ (~IsMemoryTarget /\ ~IsFileTarget
                                          /\ ~IsMdTarget /\ ~IsUrlTarget)

\* md:db.duckdb without a token is opened as a file
C29_Witness ==
    /\ cpc = "returned"
    /\ kwargs = [k \in {"conn_type"} |-> <<"md:", "db", ".duckdb">>]
    /\ conn = Connection(<<"/cwd/", "md:", "db", ".duckdb">>, {})

----------------------------------------------------------------------------
(* Claims about Auth *)

CreatesBeforeValidating(calls) ==
    /\ calls # <<>>
    /\ calls[1] = "create"
    /\ \A i \in 1..Len(calls) :
          calls[i] = "validate" => \E j \in 1..(i - 1) : calls[j] = "create"

\* C30: after any sequence of login, get_user and logout: a get_user that
\* returned a user leaves access_token set; a logout that did not raise
\* leaves it None; a get_user called with access_token None asks the
\* provider for a new token before it validates, and the user it returns
\* was validated with the token issued last.
C30_TokenDiscipline ==
    /\ (auth_call.op = "get_user" /\ auth_call.outcome = "user") =>
          access_token # 0
    /\ (auth_call.op = "logout" /\ auth_call.outcome = "done") =>
          access_token = 0
    /\ (auth_call.op = "get_user" /\ auth_call.before = 0) =>
          /\ CreatesBeforeValidating(auth_call.calls)
          /\ auth_call.outcome = "user" => access_token = issued

\* get_user after an earlier token was dropped by logout
C30_Witness ==
    /\ auth_call.op = "get_user"
    /\ auth_call.before = 0
    /\ auth_call.outcome = "user"
    /\ auth_call.calls = <<"create", "validate">>
    /\ issued >= 2

====
